---- MODULE Spec2Model ----
(***************************************************************************)
(* Model of the QuickBooks Online OAuth service (src/main.py): the token   *)
(* table qbo_tokens, the token lifecycle (get_valid_access_token,          *)
(* refresh_access_token), the OAuth handshake and the /qbo/company-info    *)
(* endpoint, run by concurrent request handlers against one table and one  *)
(* provider token endpoint; and the report endpoints with their paged      *)
(* query (src/reports).                                                    *)
(***************************************************************************)
EXTENDS Integers, FiniteSets, Sequences, TLC

VARIABLES
    qbo_tokens, \* the table: a set of rows, one per realm_id (unique key)
    now,        \* the wall clock (seconds), read by datetime.now and by the table's now()
    ticks,      \* how many times the clock has advanced
    issued,     \* the provider's counter of token values handed out
    last_rt,    \* per realm, the refresh token the provider issued last
    pc,         \* per request, its position in the handler's code
    req,        \* per request, the handler's locals
    res,        \* per request, what the finished handler did and answered
    connect_states, \* the state values GET /connect has handed out so far
    qbo_oauth_state, \* the state cookie the browser holds (None: no cookie)
    query       \* a qbo_query_all call: its arguments and locals

vars == <<qbo_tokens, now, ticks, issued, last_rt, pc, req, res, connect_states,
          qbo_oauth_state, query>>

----------------------------------------------------------------------------
(* Bounds of the model *)

MaxTicks == 1
MaxIssued == 6
MaxFullPages == 2

(* Program constants *)

DefaultSkew == 300
DefaultExpiresIn == 3600
DefaultPageSize == 1000

(* Python's None; a token value is a positive integer, 0 is the empty string *)
None == -1

Realms == {"r1", "r2"}
Procs == {1, 2}

(* How far the clock may advance in one step: one second, or the distance  *)
(* from a default-lifetime token's issue to the edge of the default skew.  *)
TickSteps == {1, DefaultExpiresIn - DefaultSkew}

----------------------------------------------------------------------------
(* Python truthiness: None, "" and 0 are falsy *)
Truthy(x) == x # None /\ x # 0

(* cur.fetchone() on an empty result *)
NoRow ==
    [realm_id |-> "", access_token |-> None, refresh_token |-> None,
     expires_at |-> None, refresh_expires_at |-> None, updated_at |-> None]

(* select ... from qbo_tokens where realm_id = r; fetchone() *)
SelectRow(tbl, r) ==
    IF \E row \in tbl : row.realm_id = r
    THEN CHOOSE row \in tbl : row.realm_id = r
    ELSE NoRow

(* Variant: the update has no where clause *)
UpdateRowAllRealms(tbl, r, at, rt, exp, rexp, t) ==
    { [row EXCEPT !.access_token = at, !.refresh_token = rt,
                  !.expires_at = exp, !.refresh_expires_at = rexp,
                  !.updated_at = t] : row \in tbl }

(* update qbo_tokens set ... where realm_id = r *)
UpdateRow(tbl, r, at, rt, exp, rexp, t) ==
    { IF row.realm_id = r
      THEN [row EXCEPT !.access_token = at, !.refresh_token = rt,
                       !.expires_at = exp, !.refresh_expires_at = rexp,
                       !.updated_at = t]
      ELSE row : row \in tbl }

(* Variant: a plain insert, without the on conflict clause *)
UpsertRowInsertOnly(tbl, r, at, rt, exp, rexp, t) ==
    tbl \cup
    { [realm_id |-> r, access_token |-> at, refresh_token |-> rt,
       expires_at |-> exp, refresh_expires_at |-> rexp, updated_at |-> t] }

(* Variant: the table is emptied before the insert *)
UpsertRowReplacesTable(tbl, r, at, rt, exp, rexp, t) ==
    { [realm_id |-> r, access_token |-> at, refresh_token |-> rt,
       expires_at |-> exp, refresh_expires_at |-> rexp, updated_at |-> t] }

(* insert ... on conflict (realm_id) do update set ... *)
UpsertRow(tbl, r, at, rt, exp, rexp, t) ==
    { row \in tbl : row.realm_id # r } \cup
    { [realm_id |-> r, access_token |-> at, refresh_token |-> rt,
       expires_at |-> exp, refresh_expires_at |-> rexp, updated_at |-> t] }

----------------------------------------------------------------------------
(* Text.  A Python str whose content the code looks into (the provider's    *)
(* error string, the format parameter) is a sequence of characters.         *)

UpperLetters ==
    <<"A", "B", "C", "D", "E", "F", "G", "H", "I", "J", "K", "L", "M",
      "N", "O", "P", "Q", "R", "S", "T", "U", "V", "W", "X", "Y", "Z">>

LowerLetters ==
    <<"a", "b", "c", "d", "e", "f", "g", "h", "i", "j", "k", "l", "m",
      "n", "o", "p", "q", "r", "s", "t", "u", "v", "w", "x", "y", "z">>

(* lower() of one character: a capital letter becomes its small letter *)
LowerChar(c) ==
    IF \E i \in 1..26 : UpperLetters[i] = c
    THEN LowerLetters[CHOOSE i \in 1..26 : UpperLetters[i] = c]
    ELSE c

(* str.lower(): every character lowered, the others as they are *)
Lower(s) == [i \in 1..Len(s) |-> LowerChar(s[i])]

(* sub in s, for Python strings *)
Contains(s, sub) ==
    \E i \in 0..(Len(s) - Len(sub)) :
        \A k \in 1..Len(sub) : s[i + k] = sub[k]

(* "invalid_grant" *)
InvalidGrant == <<"i", "n", "v", "a", "l", "i", "d", "_", "g", "r", "a", "n", "t">>

(* "invalid_grant" in err *)
ContainsInvalidGrant(s) == Contains(s, InvalidGrant)

----------------------------------------------------------------------------
(* The provider's token endpoint: the status of an answer, whether its body *)
(* parses as JSON (an empty body counts: line 108 makes {} of it), and the  *)
(* fields of the JSON body                                                  *)

NoData ==
    [status |-> 0, json |-> TRUE, error |-> <<>>, access_token |-> None,
     refresh_token |-> None, expires_in |-> None, x_refresh_token_expires_in |-> None]

(* "Invalid_Grant" *)
InvalidGrantCapitals ==
    <<"I", "n", "v", "a", "l", "i", "d", "_", "G", "r", "a", "n", "t">>

(* "invalid_grant: revoked" *)
InvalidGrantRevoked ==
    InvalidGrant \o <<":", " ", "r", "e", "v", "o", "k", "e", "d">>

(* "invalid_client" *)
InvalidClient ==
    <<"i", "n", "v", "a", "l", "i", "d", "_", "c", "l", "i", "e", "n", "t">>

(* The error strings of an answer; <<>> is "", also what                    *)
(* data.get("error") or "" makes of an answer without the field.            *)
ErrorStrings ==
    {<<>>, InvalidGrant, InvalidGrantCapitals, InvalidGrantRevoked, InvalidClient}

(* The lifetimes <<expires_in, x_refresh_token_expires_in>> an answer may   *)
(* state: both omitted, a lifetime equal to the default skew, a zero        *)
(* refresh lifetime.                                                        *)
Lifetimes == {<<None, None>>, <<DefaultSkew, 8726400>>, <<None, 0>>}

(* An answer whose body is not JSON (the HTML page of a gateway, say):       *)
(* token_resp.json() raises on it                                           *)
NotJson(status) ==
    [status |-> status, json |-> FALSE, error |-> <<>>, access_token |-> None,
     refresh_token |-> None, expires_in |-> None, x_refresh_token_expires_in |-> None]

(* The answers to one token request when the provider's counter is at n:   *)
(* any status, with or without each token and each lifetime, and bodies    *)
(* that are not JSON.                                                      *)
TokenAnswers(n) ==
    { [status |-> 200, json |-> TRUE, error |-> <<>>, access_token |-> at,
       refresh_token |-> rt, expires_in |-> lt[1], x_refresh_token_expires_in |-> lt[2]] :
         at \in {None, n + 1}, rt \in {None, n + 2}, lt \in Lifetimes }
    \cup
    { [status |-> 302, json |-> TRUE, error |-> <<>>, access_token |-> at,
       refresh_token |-> None, expires_in |-> None, x_refresh_token_expires_in |-> None] :
         at \in {None, n + 1} }
    \cup
    { [status |-> 400, json |-> TRUE, error |-> e, access_token |-> None,
       refresh_token |-> None, expires_in |-> None, x_refresh_token_expires_in |-> None] :
         e \in ErrorStrings }
    \cup
    { [status |-> 503, json |-> TRUE, error |-> <<>>, access_token |-> None,
       refresh_token |-> None, expires_in |-> None, x_refresh_token_expires_in |-> None] }
    \cup
    { NotJson(200), NotJson(502) }

(* The token values a body carries (what str(data) or a JSON echo shows) *)
TokensIn(data) ==
    {data.access_token, data.refresh_token} \ {None}

----------------------------------------------------------------------------
(* get_valid_access_token and refresh_access_token, as pure decisions *)

(* Variant: only a missing row counts as missing stored tokens *)
MissingStoredRowOnly(row) == row = NoRow

(* line 165: not row or not row.get("access_token") or not row.get("expires_at") *)
MissingStored(row) ==
    row = NoRow \/ ~Truthy(row.access_token) \/ row.expires_at = None

(* Variant: the comparison turned around *)
NeedsRefreshFlipped(expires_at, t, skew) == expires_at >= t + skew

(* Variant: a token expiring exactly at now + skew is not refreshed *)
NeedsRefreshStrict(expires_at, t, skew) == expires_at < t + skew

(* line 172: expires_at <= now + timedelta(seconds=refresh_skew_seconds) *)
NeedsRefresh(expires_at, t, skew) == expires_at <= t + skew

(* Variant: only a missing row counts as no refresh token *)
NoRefreshTokenRowOnly(row) == row = NoRow

(* line 87: not row or not row.get("refresh_token") *)
NoRefreshToken(row) == row = NoRow \/ ~Truthy(row.refresh_token)

(* Variant: an answer below 400 is taken as a success without looking for   *)
(* its access token                                                         *)
RefreshOutcomeStatusOnly(data) ==
    IF ~data.json
    THEN "JSONDecodeError"
    ELSE IF data.status >= 400
    THEN IF ContainsInvalidGrant(Lower(data.error))
         THEN "RECONNECT_REQUIRED"
         ELSE "token_refresh_failed"
    ELSE "ok"

(* lines 108-120: how refresh_access_token ends on the provider's answer:   *)
(* token_resp.json() raises on a body that is not JSON (an exception of     *)
(* requests, not a RuntimeError); otherwise the status and the fields decide *)
RefreshOutcome(data) ==
    IF ~data.json
    THEN "JSONDecodeError"
    ELSE IF data.status >= 400
    THEN IF ContainsInvalidGrant(Lower(data.error))
         THEN "RECONNECT_REQUIRED"
         ELSE "token_refresh_failed"
    ELSE IF ~Truthy(data.access_token)
         THEN "token_refresh_failed"
         ELSE "ok"

(* Variant: the update runs before the answer is checked for an access token *)
RefreshWritesBeforeCheck(data) == data.json /\ data.status < 400

(* lines 130-151 run only when no exception was raised before them *)
RefreshWrites(data) == RefreshOutcome(data) = "ok"

(* Variant: the answer's expires_in is ignored *)
ExpiresAtDefaultOnly(t, data) == t + DefaultExpiresIn

(* lines 122-123 and 249-250: int(data.get("expires_in", 3600)) seconds from now *)
ExpiresAt(t, data) ==
    t + (IF data.expires_in = None THEN DefaultExpiresIn ELSE data.expires_in)

(* Variant: the field is used whenever it is there, a zero included *)
RefreshExpiresAtWhenPresent(t, data) ==
    IF data.x_refresh_token_expires_in # None
    THEN t + data.x_refresh_token_expires_in
    ELSE None

(* lines 125-128 and 252-255 *)
RefreshExpiresAt(t, data) ==
    IF Truthy(data.x_refresh_token_expires_in)
    THEN t + data.x_refresh_token_expires_in
    ELSE None

(* Variant: the answer's refresh token is stored even when it is missing *)
KeptRefreshTokenAlwaysNew(new, old) == new

(* line 145: new_refresh_token or refresh_token *)
KeptRefreshToken(new, old) == IF Truthy(new) THEN new ELSE old

(* The token values the text of a RuntimeError carries: lines 88, 114 and  *)
(* 166 are fixed texts, lines 115 and 120 format the whole answer body.    *)
MessageTokens(exc, data) ==
    IF exc = "token_refresh_failed" THEN TokensIn(data) ELSE {}

----------------------------------------------------------------------------
(* What an endpoint answers to its caller *)

NoResponse == [status |-> 0, error |-> "", connect_url |-> "", exposed |-> {}]

(* lines 288-295: company_info's handling of a RuntimeError with text msg *)
AuthErrorResponse(exc, msg_tokens) ==
    IF exc = "RECONNECT_REQUIRED"
    THEN [status |-> 401, error |-> "reconnect_required", connect_url |-> "/connect",
          exposed |-> msg_tokens]
    ELSE [status |-> 500, error |-> "auth_failed", connect_url |-> "",
          exposed |-> msg_tokens]

(* No handler catches the exception: the framework answers 500 with the     *)
(* plain text "Internal Server Error", no error code and no connect_url.    *)
UnhandledResponse == [status |-> 500, error |-> "", connect_url |-> "", exposed |-> {}]

(* What get_valid_access_token raises as RuntimeError (by message prefix);  *)
(* requests.post raises requests' own RequestException and token_resp.json() *)
(* its JSONDecodeError, which are not RuntimeErrors.                        *)
RuntimeErrors == {"RECONNECT_REQUIRED", "token_refresh_failed"}

(* try: get_valid_access_token(realmId) / except RuntimeError, in           *)
(* company_info and in the two report handlers                              *)
ExceptionResponse(exc, msg_tokens) ==
    IF exc \in RuntimeErrors
    THEN AuthErrorResponse(exc, msg_tokens)
    ELSE UnhandledResponse

(* line 303: return r.json(): the provider's body, answered with status 200 *)
(* whatever status the provider gave; a report's file download              *)
DataResponse == [status |-> 200, error |-> "", connect_url |-> "", exposed |-> {}]

(* invoices.py line 220, invoice_lines_all.py line 238 *)
InvalidFormatResponse ==
    [status |-> 400, error |-> "invalid_format", connect_url |-> "", exposed |-> {}]

----------------------------------------------------------------------------
(* Request handlers *)

(* A handler's locals and what it did: row is what get_valid_access_token    *)
(* selected (for the other handlers, the realm's row when the request came  *)
(* in), read_now the clock it read at line 169, refresh_token what          *)
(* refresh_access_token read, data the provider's answer, computed_at the   *)
(* clock read at lines 123 and 250 and expires_at the expiry computed from   *)
(* it (also the stored expiry of a token returned from the table),          *)
(* refresh_computed_at the clock read at lines 128 and 255 and              *)
(* refresh_expires_at the expiry computed from it (None when the answer     *)
(* gives no refresh lifetime), calls the token requests sent, updated_at    *)
(* the table's now() when the handler's update or upsert was executed,      *)
(* writes the statements committed, stored the realm's row as the handler's *)
(* own commit left it; code, state and cookie_state what a callback was  *)
(* called with, connected the state values /connect had handed out by then; *)
(* how get_valid_access_token ended (outcome "return" with value, or        *)
(* "raise" with exc) and the clock at (for a callback: at its answer);     *)
(* the data requests sent, the endpoint's answer and the rows of   *)
(* its body.                                                                *)
IdleReq ==
    [op |-> "", realm |-> "", skew |-> 0, format |-> <<>>, row |-> NoRow,
     read_now |-> 0, refresh_read |-> FALSE, refresh_token |-> None,
     data |-> NoData, computed_at |-> 0, expires_at |-> None,
     refresh_computed_at |-> 0, refresh_expires_at |-> None, calls |-> 0,
     updated_at |-> None, writes |-> 0, stored |-> NoRow,
     code |-> None, state |-> None, cookie_state |-> None, connected |-> {},
     outcome |-> "", value |-> None, exc |-> "", at |-> 0,
     data_calls |-> 0, response |-> NoResponse, body |-> <<>>]

NoResult == IdleReq

(* The handler answers: dcalls data requests were sent, resp is the answer  *)
Result(rq, dcalls, resp, body) ==
    [rq EXCEPT !.data_calls = dcalls, !.response = resp, !.body = body]

(* get_valid_access_token raised exc: the endpoint's except clause answers, *)
(* or the exception leaves the handler                                      *)
Raised(rq, exc) ==
    Result([rq EXCEPT !.outcome = "raise", !.exc = exc, !.at = now], 0,
           ExceptionResponse(exc, MessageTokens(exc, rq.data)), <<>>)

(* get_valid_access_token returned token, recorded with expiry exp *)
Returned(rq, token, exp) ==
    [rq EXCEPT !.outcome = "return", !.value = token, !.expires_at = exp, !.at = now]

Finish(p, r) ==
    /\ res' = [res EXCEPT ![p] = r]
    /\ pc' = [pc EXCEPT ![p] = "done"]
    /\ req' = [req EXCEPT ![p] = IdleReq]

Goto(p, label, rq) ==
    /\ pc' = [pc EXCEPT ![p] = label]
    /\ req' = [req EXCEPT ![p] = rq]
    /\ UNCHANGED res

(* The endpoint of main.py that begins with get_valid_access_token(realmId) *)
Endpoints == {"company_info"}

(* The handlers of src/reports, which call                                  *)
(* request.app.state.get_valid_access_token(realmId)                        *)
ReportEndpoints == {"invoices", "invoice_lines_all"}

(* An endpoint called for realm r: the select of get_valid_access_token and *)
(* the test of what it found, lines 286-287 and 159-166.                    *)
GetValidRead(p, op, r, skew, format) ==
    /\ pc[p] = "idle"
    /\ UNCHANGED <<qbo_tokens, now, ticks, issued, last_rt, connect_states, qbo_oauth_state, query>>
    /\ LET row == SelectRow(qbo_tokens, r)
           rq == [IdleReq EXCEPT !.op = op, !.realm = r, !.skew = skew,
                                 !.format = format, !.row = row]
       IN  IF MissingStored(row)
           THEN Finish(p, Raised(rq, "RECONNECT_REQUIRED"))
           ELSE Goto(p, "get_valid_now", rq)

(* lines 168-175, after the connection was given back: the clock is read    *)
(* and the selected expires_at compared with it                             *)
GetValidNow(p) ==
    /\ pc[p] = "get_valid_now"
    /\ UNCHANGED <<qbo_tokens, now, ticks, issued, last_rt, connect_states, qbo_oauth_state, query>>
    /\ LET rq == [req[p] EXCEPT !.read_now = now]
       IN  IF NeedsRefresh(rq.row.expires_at, now, rq.skew)
           THEN Goto(p, "refresh_read", rq)
           ELSE Goto(p, "data_call", Returned(rq, rq.row.access_token, rq.row.expires_at))

(* Variant: the read waits while another request is refreshing the same realm *)
RefreshReadLocked(p) ==
    /\ pc[p] = "refresh_read"
    /\ \A o \in Procs \ {p} :
          ~(pc[o] \in {"refresh_call", "refresh_answered", "refresh_expiry",
                        "refresh_store", "refresh_commit"}
            /\ req[o].realm = req[p].realm)
    /\ UNCHANGED <<qbo_tokens, now, ticks, issued, last_rt, connect_states, qbo_oauth_state, query>>
    /\ LET row == SelectRow(qbo_tokens, req[p].realm)
           rq == [req[p] EXCEPT !.refresh_read = TRUE,
                                !.refresh_token = row.refresh_token]
       IN  IF NoRefreshToken(row)
           THEN Finish(p, Raised(rq, "RECONNECT_REQUIRED"))
           ELSE Goto(p, "refresh_call", rq)

(* refresh_access_token, lines 82-90: read the stored refresh token *)
RefreshRead(p) ==
    /\ pc[p] = "refresh_read"
    /\ UNCHANGED <<qbo_tokens, now, ticks, issued, last_rt, connect_states, qbo_oauth_state, query>>
    /\ LET row == SelectRow(qbo_tokens, req[p].realm)
           rq == [req[p] EXCEPT !.refresh_read = TRUE,
                                !.refresh_token = row.refresh_token]
       IN  IF NoRefreshToken(row)
           THEN Finish(p, Raised(rq, "RECONNECT_REQUIRED"))
           ELSE Goto(p, "refresh_call", rq)

(* An answer of oauth_callback *)
CallbackResponse(status, error, exposed) ==
    [status |-> status, error |-> error, connect_url |-> "", exposed |-> exposed]

(* A handler without a get_valid_access_token call answers *)
Responded(rq, resp) ==
    Result([rq EXCEPT !.outcome = "response", !.at = now], 0, resp, <<>>)

(* requests.post raises (no connection, timeout): no answer arrives, the    *)
(* exception leaves the handler.                                            *)
NetworkFails(p) ==
    /\ UNCHANGED <<issued, last_rt>>
    /\ LET rq == [req[p] EXCEPT !.calls = @ + 1]
       IN  IF rq.op = "callback"
           THEN Finish(p, Responded(rq, UnhandledResponse))
           ELSE Finish(p, Raised(rq, "RequestException"))

(* The provider answers the token request handler p is waiting on with     *)
(* data: it issues the tokens of the answer; the handler goes on later     *)
ProviderAnswers(p, data, next) ==
    /\ issued + 2 <= MaxIssued
    /\ data \in TokenAnswers(issued)
    /\ issued' = IF TokensIn(data) = {} THEN issued ELSE issued + 2
    /\ last_rt' = IF Truthy(data.refresh_token)
                  THEN [last_rt EXCEPT ![req[p].realm] = data.refresh_token]
                  ELSE last_rt
    /\ Goto(p, next, [req[p] EXCEPT !.data = data, !.calls = @ + 1])

(* lines 122-123 and 249-250: expires_at from the clock read there *)
ExpiryComputed(rq, data) ==
    [rq EXCEPT !.computed_at = now, !.expires_at = ExpiresAt(now, data)]

(* lines 125-128 and 252-255: the clock is read again only when the answer  *)
(* states a refresh lifetime; refresh_expires_at stays None otherwise       *)
ReadsClockAgain(data) == RefreshExpiresAt(0, data) # None

(* line 128 and line 255: refresh_expires_at from the clock read there *)
RefreshExpiryComputed(rq, data) ==
    [rq EXCEPT !.refresh_computed_at = now,
               !.refresh_expires_at = RefreshExpiresAt(now, data)]

(* refresh_access_token, lines 93-106: requests.post has sent the refresh   *)
(* grant and waits; the provider answers, or the request fails              *)
RefreshCall(p) ==
    /\ pc[p] = "refresh_call"
    /\ UNCHANGED <<qbo_tokens, now, ticks, connect_states, qbo_oauth_state, query>>
    /\ \/ \E data \in TokenAnswers(issued) : ProviderAnswers(p, data, "refresh_answered")
       \/ NetworkFails(p)

(* refresh_access_token, lines 108-123: the handler has the answer; it      *)
(* raises for a body that is not JSON, an error status or a missing access  *)
(* token, else reads the clock for expires_at                               *)
RefreshAnswered(p) ==
    /\ pc[p] = "refresh_answered"
    /\ UNCHANGED <<qbo_tokens, now, ticks, issued, last_rt, connect_states, qbo_oauth_state, query>>
    /\ LET data == req[p].data
           rq == ExpiryComputed(req[p], data)
       IN  IF ~RefreshWrites(data)
           THEN Finish(p, Raised(req[p], RefreshOutcome(data)))
           ELSE IF ReadsClockAgain(data)
                THEN Goto(p, "refresh_expiry", rq)
                ELSE Goto(p, "refresh_store", rq)

(* refresh_access_token, lines 125-128: the second clock read, for          *)
(* refresh_expires_at                                                       *)
RefreshExpiry(p) ==
    /\ pc[p] = "refresh_expiry"
    /\ UNCHANGED <<qbo_tokens, now, ticks, issued, last_rt, connect_states, qbo_oauth_state, query>>
    /\ Goto(p, "refresh_store", RefreshExpiryComputed(req[p], req[p].data))

(* refresh_access_token, lines 130-150: a connection is taken and the       *)
(* update is executed in its transaction; updated_at is the table's now()   *)
(* of that moment.  Nothing reaches the table's readers before the commit.  *)
RefreshExecute(p) ==
    /\ pc[p] = "refresh_store"
    /\ UNCHANGED <<qbo_tokens, now, ticks, issued, last_rt, connect_states, qbo_oauth_state, query>>
    /\ Goto(p, "refresh_commit", [req[p] EXCEPT !.updated_at = now])

(* refresh_access_token, line 151: conn.commit(); the realm's row now holds *)
(* what the update set.  Two writers of one row are ordered by their        *)
(* commits, and either may commit first: the orders a database admits that  *)
(* makes the second statement wait for the first commit are among them.     *)
RefreshCommit(p) ==
    /\ pc[p] = "refresh_commit"
    /\ UNCHANGED <<now, ticks, issued, last_rt, connect_states, qbo_oauth_state, query>>
    /\ LET data == req[p].data
           tbl == UpdateRow(qbo_tokens, req[p].realm, data.access_token,
                            KeptRefreshToken(data.refresh_token, req[p].refresh_token),
                            req[p].expires_at, req[p].refresh_expires_at,
                            req[p].updated_at)
       IN  /\ qbo_tokens' = tbl
           /\ Goto(p, "refresh_return", [req[p] EXCEPT !.writes = @ + 1,
                                                       !.stored = SelectRow(tbl, req[p].realm)])

(* refresh_access_token, line 153, and get_valid_access_token, line 173:    *)
(* the new access token is returned to get_valid_access_token's caller      *)
RefreshReturn(p) ==
    /\ pc[p] = "refresh_return"
    /\ UNCHANGED <<qbo_tokens, now, ticks, issued, last_rt, connect_states, qbo_oauth_state, query>>
    /\ LET data == req[p].data
       IN  IF RefreshOutcome(data) = "ok"
           THEN Goto(p, "data_call", Returned(req[p], data.access_token, req[p].expires_at))
           ELSE Finish(p, Raised(req[p], RefreshOutcome(data)))

(* What becomes of company_info's request to the data API: a JSON body (of  *)
(* any status), a body that is not JSON, or no answer (requests.get raises)  *)
DataAnswers == {"json", "not_json", "no_answer"}

(* company_info, lines 297-303: the data request is sent with the token;    *)
(* r.json() is the answer; an exception of requests.get or of r.json()      *)
(* leaves the handler                                                       *)
DataCall(p, answer) ==
    /\ pc[p] = "data_call"
    /\ req[p].op \in Endpoints
    /\ UNCHANGED <<qbo_tokens, now, ticks, issued, last_rt, connect_states, qbo_oauth_state, query>>
    /\ Finish(p, Result(req[p], 1,
                        IF answer = "json" THEN DataResponse ELSE UnhandledResponse,
                        <<>>))

----------------------------------------------------------------------------
(* GET /oauth/callback *)

(* Variant: the parameter check does not look at code *)
MissingParamsNoCode(code, realmId, state) ==
    realmId = "" \/ ~Truthy(state)

(* line 216: not code or not realmId or not state; realmId "" is a missing  *)
(* realmId                                                                  *)
MissingParams(code, realmId, state) ==
    ~Truthy(code) \/ realmId = "" \/ ~Truthy(state)

(* Variant: the state check only asks for a cookie *)
InvalidStateCookieOnly(state, cookie_state) ==
    ~Truthy(cookie_state)

(* line 220: not cookie_state or cookie_state != state; cookie_state is the *)
(* request's qbo_oauth_state cookie                                         *)
InvalidState(state, cookie_state) ==
    ~Truthy(cookie_state) \/ cookie_state # state

(* Variant: a callback's answer deletes the state cookie *)
CookieDeleted(cookie) == None

(* The browser's state cookie after an answer of oauth_callback: none of    *)
(* its responses (lines 217, 221, 246, 258, 282) sets or deletes a cookie.  *)
CookieAfterCallback(cookie) == cookie

(* lines 216-221: the parameter check, then the state check *)
CallbackCheck(p, code, realmId, state, cookie_state) ==
    /\ pc[p] = "idle"
    /\ UNCHANGED <<qbo_tokens, now, ticks, issued, last_rt, connect_states, query>>
    /\ qbo_oauth_state' =
          IF MissingParams(code, realmId, state) \/ InvalidState(state, cookie_state)
          THEN CookieAfterCallback(qbo_oauth_state)
          ELSE qbo_oauth_state
    /\ LET rq == [IdleReq EXCEPT !.op = "callback", !.realm = realmId,
                                 !.row = SelectRow(qbo_tokens, realmId),
                                 !.code = code, !.state = state,
                                 !.cookie_state = cookie_state,
                                 !.connected = connect_states]
       IN  IF MissingParams(code, realmId, state)
           THEN Finish(p, Responded(rq, CallbackResponse(400, "missing_params", {})))
           ELSE IF InvalidState(state, cookie_state)
                THEN Finish(p, Responded(rq, CallbackResponse(400, "invalid_state", {})))
                ELSE Goto(p, "callback_call", rq)

(* Variant: only the access token is asked for *)
CallbackOutcomeAccessOnly(data) ==
    IF ~data.json
    THEN "JSONDecodeError"
    ELSE IF data.status >= 400
    THEN "token_exchange_failed"
    ELSE IF ~Truthy(data.access_token)
         THEN "missing_tokens_in_response"
         ELSE "connected"

(* lines 244-261: how oauth_callback ends on the provider's answer:         *)
(* token_resp.json() raises on a body that is not JSON and nothing catches  *)
(* it; otherwise the status and the tokens decide                           *)
CallbackOutcome(data) ==
    IF ~data.json
    THEN "JSONDecodeError"
    ELSE IF data.status >= 400
    THEN "token_exchange_failed"
    ELSE IF ~Truthy(data.access_token) \/ ~Truthy(data.refresh_token)
         THEN "missing_tokens_in_response"
         ELSE "connected"

(* The callback's answer once lines 257-261 have checked the tokens: an     *)
(* error, or on to the upsert                                               *)
CallbackChecked(p, rq) ==
    LET out == CallbackOutcome(rq.data)
    IN  IF out = "connected"
        THEN /\ Goto(p, "callback_store", rq)
             /\ qbo_oauth_state' = qbo_oauth_state
        ELSE /\ Finish(p, Responded(rq, CallbackResponse(500, out, TokensIn(rq.data))))
             /\ qbo_oauth_state' = CookieAfterCallback(qbo_oauth_state)

(* lines 229-243: requests.post has sent the authorization code and waits;  *)
(* the provider answers, or the request fails                               *)
CallbackCall(p) ==
    /\ pc[p] = "callback_call"
    /\ UNCHANGED <<qbo_tokens, now, ticks, connect_states, query>>
    /\ \/ /\ \E data \in TokenAnswers(issued) : ProviderAnswers(p, data, "callback_answered")
          /\ qbo_oauth_state' = qbo_oauth_state
       \/ /\ NetworkFails(p)
          /\ qbo_oauth_state' = CookieAfterCallback(qbo_oauth_state)

(* lines 244-261: the handler has the answer; a body that is not JSON ends  *)
(* the handler with an exception, an error status is answered               *)
(* token_exchange_failed; else the clock is read for expires_at, and, when  *)
(* no second clock read follows, the tokens are checked                     *)
CallbackAnswered(p) ==
    /\ pc[p] = "callback_answered"
    /\ UNCHANGED <<qbo_tokens, now, ticks, issued, last_rt, connect_states, query>>
    /\ LET data == req[p].data
           rq == ExpiryComputed(req[p], data)
       IN  IF ~data.json
           THEN /\ Finish(p, Responded(req[p], UnhandledResponse))
                /\ qbo_oauth_state' = CookieAfterCallback(qbo_oauth_state)
           ELSE IF data.status >= 400
           THEN /\ Finish(p, Responded(req[p], CallbackResponse(500, CallbackOutcome(data),
                                                                TokensIn(data))))
                /\ qbo_oauth_state' = CookieAfterCallback(qbo_oauth_state)
           ELSE IF ReadsClockAgain(data)
                THEN /\ Goto(p, "callback_expiry", rq)
                     /\ qbo_oauth_state' = qbo_oauth_state
                ELSE CallbackChecked(p, rq)

(* lines 252-261: the second clock read, for refresh_expires_at, then the   *)
(* check of the tokens                                                      *)
CallbackExpiry(p) ==
    /\ pc[p] = "callback_expiry"
    /\ UNCHANGED <<qbo_tokens, now, ticks, issued, last_rt, connect_states, query>>
    /\ CallbackChecked(p, RefreshExpiryComputed(req[p], req[p].data))

(* lines 263-278: a connection is taken and the upsert is executed in its   *)
(* transaction; updated_at is the table's now() of that moment              *)
CallbackExecute(p) ==
    /\ pc[p] = "callback_store"
    /\ UNCHANGED <<qbo_tokens, now, ticks, issued, last_rt, connect_states, qbo_oauth_state, query>>
    /\ Goto(p, "callback_commit", [req[p] EXCEPT !.updated_at = now])

(* line 279: conn.commit(); the realm's row is the upserted one *)
CallbackCommit(p) ==
    /\ pc[p] = "callback_commit"
    /\ UNCHANGED <<now, ticks, issued, last_rt, connect_states, qbo_oauth_state, query>>
    /\ LET rq == req[p]
           data == rq.data
           tbl == UpsertRow(qbo_tokens, rq.realm, data.access_token, data.refresh_token,
                            rq.expires_at, rq.refresh_expires_at, rq.updated_at)
       IN  /\ qbo_tokens' = tbl
           /\ Goto(p, "callback_answer", [rq EXCEPT !.writes = @ + 1,
                                                    !.stored = SelectRow(tbl, rq.realm)])

(* line 282: the callback answers connected *)
CallbackAnswer(p) ==
    /\ pc[p] = "callback_answer"
    /\ UNCHANGED <<qbo_tokens, now, ticks, issued, last_rt, connect_states, query>>
    /\ qbo_oauth_state' = CookieAfterCallback(qbo_oauth_state)
    /\ Finish(p, Responded(req[p], CallbackResponse(200, "", {})))

----------------------------------------------------------------------------
(* GET /connect, lines 177-208: a new random state is put into the consent   *)
(* redirect and into the qbo_oauth_state cookie; the service itself keeps    *)
(* nothing.  connect_states remembers what was handed out; the browser      *)
(* keeps the cookie (set_cookie, lines 199-206).                             *)
Connect(state) ==
    /\ state \notin connect_states
    /\ connect_states' = connect_states \cup {state}
    /\ qbo_oauth_state' = state
    /\ UNCHANGED <<qbo_tokens, now, ticks, issued, last_rt, pc, req, res, query>>

----------------------------------------------------------------------------
(* GET /auth/status?realmId=r, lines 61-71: one select; the answer is the   *)
(* realmId with the row's expires_at, refresh_expires_at and updated_at, or *)
(* the realmId alone when there is no row.                                  *)
AuthStatus(p, r) ==
    /\ pc[p] = "idle"
    /\ UNCHANGED <<qbo_tokens, now, ticks, issued, last_rt, connect_states, qbo_oauth_state, query>>
    /\ LET row == SelectRow(qbo_tokens, r)
           rq == [IdleReq EXCEPT !.op = "auth_status", !.realm = r, !.row = row,
                                 !.read_now = now, !.expires_at = row.expires_at]
       IN  Finish(p, Responded(rq, DataResponse))

----------------------------------------------------------------------------
(* qbo_query_all *)

Min(a, b) == IF a <= b THEN a ELSE b

(* The provider's answer to "STARTPOSITION start MAXRESULTS m" over a       *)
(* result of n rows: rows are numbered 1..n in the order of the query.      *)
Page(n, start, m) ==
    LET len == IF start > n THEN 0 ELSE Min(m, n - start + 1)
    IN  [i \in 1..len |-> start + i - 1]

(* The call's arguments and locals, with what the provider holds: rows      *)
(* invoices of lines Line entries each; the fail_at-th page request is      *)
(* answered with fail_status (none when fail_at is 0).                      *)
IdleQuery ==
    [pc |-> "idle", page_size |-> 0, rows |-> 0, lines |-> 0, fail_at |-> 0,
     fail_status |-> 0, start |-> 0, starts |-> <<>>, results |-> <<>>,
     outcome |-> "", exc |-> ""]

(* results = [], start = 1 *)
QueryStart(page_size, n, lines, fail_at, fail_status) ==
    [IdleQuery EXCEPT !.pc = "paging", !.page_size = page_size, !.rows = n,
                      !.lines = lines, !.fail_at = fail_at,
                      !.fail_status = fail_status, !.start = 1]

(* Variant: paging goes on until a page comes back empty *)
LastPageEmptyOnly(batch_len, page_size) == batch_len = 0

(* if len(batch) < page_size: break *)
LastPage(batch_len, page_size) == batch_len < page_size

(* raise RuntimeError(f"AUTH_401: ...") or RuntimeError(f"QBO_QUERY_FAILED ...") *)
QueryRaised(q, exc) ==
    [q EXCEPT !.pc = "done", !.outcome = "raise", !.exc = exc]

(* return results *)
QueryReturned(q) ==
    [q EXCEPT !.pc = "done", !.outcome = "return"]

(* One turn of the while loop: request the page at start, check the status, *)
(* extend results, stop or move start on.                                   *)
QueryTurn(q) ==
    LET k == Len(q.starts) + 1
        status == IF q.fail_at = k THEN q.fail_status ELSE 200
        batch == Page(q.rows, q.start, q.page_size)
        asked == [q EXCEPT !.starts = Append(@, q.start)]
        got == [asked EXCEPT !.results = @ \o batch]
    IN  IF status = 401 THEN QueryRaised(asked, "AUTH_401")
        ELSE IF status >= 400 THEN QueryRaised(asked, "QBO_QUERY_FAILED")
        ELSE IF LastPage(Len(batch), q.page_size) THEN QueryReturned(got)
        ELSE [got EXCEPT !.start = @ + q.page_size]

(* qbo_query_all called by itself with a page size; the provider holds n    *)
(* rows and answers the fail_at-th page request with fail_status.           *)
QueryBegin(page_size, n, fail_at, fail_status) ==
    /\ query.pc = "idle"
    /\ \A p \in Procs : pc[p] = "idle"
    /\ query' = QueryStart(page_size, n, 0, fail_at, fail_status)
    /\ UNCHANGED <<qbo_tokens, now, ticks, issued, last_rt, pc, req, res, connect_states, qbo_oauth_state>>

(* A turn of the loop of that call *)
QueryPage ==
    /\ query.pc = "paging"
    /\ \A p \in Procs : pc[p] # "paging"
    /\ query' = QueryTurn(query)
    /\ UNCHANGED <<qbo_tokens, now, ticks, issued, last_rt, pc, req, res, connect_states, qbo_oauth_state>>

----------------------------------------------------------------------------
(* The report endpoints *)

(* request.app.state as the report handlers read it (invoices.py lines      *)
(* 64-65, invoice_lines_all.py lines 144-145): the application's set-up     *)
(* that mounts the two routers and stores main.py's get_valid_access_token  *)
(* and QBO_API_BASE on app.state.                                           *)
AppState ==
    [get_valid_access_token |-> "get_valid_access_token",
     qbo_api_base |-> "QBO_API_BASE"]

(* "json", "csv" *)
Json == <<"j", "s", "o", "n">>
Csv == <<"c", "s", "v">>

(* The format parameters requests come with: "json", "CSV", "xml" *)
Formats == {Json, <<"C", "S", "V">>, <<"x", "m", "l">>}

(* How many Line entries each invoice at the provider has *)
LineCounts == {0, 1, 2}

(* A report endpoint called for realm r: the handler takes                  *)
(* get_valid_access_token from app.state and calls it with the default skew *)
ReportRequest(p, op, r, format) ==
    /\ AppState.get_valid_access_token = "get_valid_access_token"
    /\ GetValidRead(p, op, r, DefaultSkew, format)

(* flatten_invoice_lines(invoice): one row per Line of the invoice *)
FlattenInvoiceLines(inv, lines) == [k \in 1..lines |-> <<inv, k>>]

(* invoice_lines_all.py lines 171-176: the rows of all invoices, in order *)
AllLines(invoices, lines) ==
    [j \in 1..(Len(invoices) * lines) |->
        FlattenInvoiceLines(invoices[((j - 1) \div lines) + 1], lines)[((j - 1) % lines) + 1]]

(* The rows of the file: the invoices, or their flattened lines *)
ReportRows(op, q) ==
    IF op = "invoice_lines_all" THEN AllLines(q.results, q.lines) ELSE q.results

(* What the handler answers once qbo_query_all has ended: its RuntimeError  *)
(* is raised outside any try block and leaves the handler; its rows are     *)
(* sent as a json or csv file; any other format is answered invalid_format. *)
ReportResult(rq, q) ==
    IF q.outcome = "raise"
    THEN Result(rq, Len(q.starts), UnhandledResponse, <<>>)
    ELSE IF Lower(rq.format) \in {Json, Csv}
         THEN Result(rq, Len(q.starts), DataResponse, ReportRows(rq.op, q))
         ELSE Result(rq, Len(q.starts), InvalidFormatResponse, <<>>)

(* The handler holds a token and calls qbo_query_all with the default page  *)
(* size; the provider holds n invoices of lines Line entries each.          *)
ReportQuery(p, n, lines, fail_at, fail_status) ==
    /\ pc[p] = "data_call"
    /\ req[p].op \in ReportEndpoints
    /\ query.pc = "idle"
    /\ query' = QueryStart(DefaultPageSize, n, lines, fail_at, fail_status)
    /\ pc' = [pc EXCEPT ![p] = "paging"]
    /\ UNCHANGED <<qbo_tokens, now, ticks, issued, last_rt, req, res, connect_states, qbo_oauth_state>>

(* A turn of the loop inside the handler; when qbo_query_all ends, the      *)
(* handler answers                                                          *)
ReportPage(p) ==
    /\ pc[p] = "paging"
    /\ query.pc = "paging"
    /\ query' = QueryTurn(query)
    /\ IF query'.pc = "done"
       THEN Finish(p, ReportResult(req[p], query'))
       ELSE UNCHANGED <<pc, req, res>>
    /\ UNCHANGED <<qbo_tokens, now, ticks, issued, last_rt, connect_states, qbo_oauth_state>>

----------------------------------------------------------------------------
(* Time passes *)
Tick(d) ==
    /\ ticks < MaxTicks
    /\ ticks' = ticks + 1
    /\ now' = now + d
    /\ UNCHANGED <<qbo_tokens, issued, last_rt, pc, req, res, connect_states, qbo_oauth_state, query>>

----------------------------------------------------------------------------
(* The inputs requests are made with *)
Skews == {DefaultSkew}
Codes == {None, 1}
RealmIds == Realms \cup {""}
States == {None, 1, 2}

(* The values secrets.token_hex hands out here; state 2 is one no /connect  *)
(* ever produced.                                                           *)
ConnectStates == {1}

(* The tables an earlier handshake for realm r1, answered at time 0 with   *)
(* tokens 1 and 2, has left behind.                                        *)
ConnectedTables ==
    { UpsertRow({}, "r1", 1, 2, ExpiresAt(0, d), RefreshExpiresAt(0, d), 0) :
        d \in { a \in TokenAnswers(0) : CallbackOutcome(a) = "connected" } }

(* The service starts against an empty table or one an earlier handshake     *)
(* filled; a browser has been through /connect.                              *)
Init ==
    /\ qbo_tokens \in {{}} \cup ConnectedTables
    /\ now = 0
    /\ ticks = 0
    /\ issued = IF qbo_tokens = {} THEN 0 ELSE 2
    /\ last_rt = [r \in Realms |-> IF r = "r1" /\ qbo_tokens # {} THEN 2 ELSE None]
    /\ pc = [p \in Procs |-> "idle"]
    /\ req = [p \in Procs |-> IdleReq]
    /\ res = [p \in Procs |-> NoResult]
    /\ connect_states = ConnectStates
    /\ qbo_oauth_state \in ConnectStates
    /\ query = IdleQuery

(* The callbacks a browser that went through /connect sends: its state is   *)
(* the one it was redirected with, its cookie that one or another one.      *)
BrowserStates == ConnectStates
BrowserCookies == {1, 2}

(* The application of main.py: its routes /qbo/company-info,                *)
(* /oauth/callback and /auth/status, served concurrently                    *)
Next ==
    \/ \E p \in Procs, op \in Endpoints, r \in Realms, skew \in Skews :
            GetValidRead(p, op, r, skew, <<>>)
    \/ \E p \in Procs : GetValidNow(p)
    \/ \E p \in Procs : RefreshRead(p)
    \/ \E p \in Procs : RefreshCall(p)
    \/ \E p \in Procs : RefreshAnswered(p)
    \/ \E p \in Procs : RefreshExpiry(p)
    \/ \E p \in Procs : RefreshExecute(p)
    \/ \E p \in Procs : RefreshCommit(p)
    \/ \E p \in Procs : RefreshReturn(p)
    \/ \E p \in Procs, answer \in DataAnswers : DataCall(p, answer)
    \/ \E p \in Procs, code \in Codes, realmId \in RealmIds, state \in BrowserStates,
          cookie_state \in BrowserCookies :
            CallbackCheck(p, code, realmId, state, cookie_state)
    \/ \E p \in Procs : CallbackCall(p)
    \/ \E p \in Procs : CallbackAnswered(p)
    \/ \E p \in Procs : CallbackExpiry(p)
    \/ \E p \in Procs : CallbackExecute(p)
    \/ \E p \in Procs : CallbackCommit(p)
    \/ \E p \in Procs : CallbackAnswer(p)
    \/ \E p \in Procs, r \in Realms : AuthStatus(p, r)
    \/ \E d \in TickSteps : Tick(d)

Spec == Init /\ [][Next]_vars

(* The handshake by itself, from its first step: /connect and callbacks with *)
(* any code, realmId, state and cookie a client can send.                    *)
InitHandshake ==
    /\ qbo_tokens = {}
    /\ now = 0
    /\ ticks = 0
    /\ issued = 0
    /\ last_rt = [r \in Realms |-> None]
    /\ pc = [p \in Procs |-> "idle"]
    /\ req = [p \in Procs |-> IdleReq]
    /\ res = [p \in Procs |-> NoResult]
    /\ connect_states = {}
    /\ qbo_oauth_state = None
    /\ query = IdleQuery

NextHandshake ==
    \/ \E state \in ConnectStates : Connect(state)
    \/ \E p \in Procs, code \in Codes, realmId \in RealmIds, state \in States,
          cookie_state \in States :
            CallbackCheck(p, code, realmId, state, cookie_state)
    \/ \E p \in Procs : CallbackCall(p)
    \/ \E p \in Procs : CallbackAnswered(p)
    \/ \E p \in Procs : CallbackExpiry(p)
    \/ \E p \in Procs : CallbackExecute(p)
    \/ \E p \in Procs : CallbackCommit(p)
    \/ \E p \in Procs : CallbackAnswer(p)

SpecHandshake == InitHandshake /\ [][NextHandshake]_vars

(* qbo_query_all by itself, for any page size, any number of rows at the    *)
(* provider and any page request answered with an error.                    *)
PageSizes == {2, DefaultPageSize}
Remainders == {0, 1, 400}
RowCounts(page_size) ==
    { f * page_size + r : f \in 0..MaxFullPages,
                          r \in { x \in Remainders : x < page_size } }
FailStatuses == {401, 403, 500}

InitQuery ==
    /\ qbo_tokens \in ConnectedTables
    /\ now = 0
    /\ ticks = 0
    /\ issued = 2
    /\ last_rt = [r \in Realms |-> IF r = "r1" THEN 2 ELSE None]
    /\ pc = [p \in Procs |-> "idle"]
    /\ req = [p \in Procs |-> IdleReq]
    /\ res = [p \in Procs |-> NoResult]
    /\ connect_states = ConnectStates
    /\ qbo_oauth_state \in ConnectStates
    /\ query = IdleQuery

NextQuery ==
    \/ \E page_size \in PageSizes :
         \E n \in RowCounts(page_size) :
            \/ QueryBegin(page_size, n, 0, 0)
            \/ \E fail_at \in 1..(MaxFullPages + 1), fail_status \in FailStatuses :
                  QueryBegin(page_size, n, fail_at, fail_status)
    \/ QueryPage

(* every request and every answer takes bounded time (timeout=60), so a     *)
(* loop turn that can be taken is taken                                     *)
SpecQuery == InitQuery /\ [][NextQuery]_vars /\ WF_vars(QueryPage)

(* One request to a report endpoint, from its token to its answer, against  *)
(* an empty table or one a handshake filled.                                *)
ReportProcs == {1}

InitReport ==
    /\ qbo_tokens \in {{}} \cup ConnectedTables
    /\ now = 0
    /\ ticks = 0
    /\ issued = IF qbo_tokens = {} THEN 0 ELSE 2
    /\ last_rt = [r \in Realms |-> IF r = "r1" /\ qbo_tokens # {} THEN 2 ELSE None]
    /\ pc = [p \in Procs |-> "idle"]
    /\ req = [p \in Procs |-> IdleReq]
    /\ res = [p \in Procs |-> NoResult]
    /\ connect_states = ConnectStates
    /\ qbo_oauth_state \in ConnectStates
    /\ query = IdleQuery

NextReport ==
    \/ \E p \in ReportProcs, op \in ReportEndpoints, format \in Formats :
            ReportRequest(p, op, "r1", format)
    \/ \E p \in ReportProcs : GetValidNow(p)
    \/ \E p \in ReportProcs : RefreshRead(p)
    \/ \E p \in ReportProcs : RefreshCall(p)
    \/ \E p \in ReportProcs : RefreshAnswered(p)
    \/ \E p \in ReportProcs : RefreshExpiry(p)
    \/ \E p \in ReportProcs : RefreshExecute(p)
    \/ \E p \in ReportProcs : RefreshCommit(p)
    \/ \E p \in ReportProcs : RefreshReturn(p)
    \/ \E p \in ReportProcs, n \in RowCounts(DefaultPageSize), lines \in LineCounts :
            \/ ReportQuery(p, n, lines, 0, 0)
            \/ \E fail_at \in 1..(MaxFullPages + 1), fail_status \in FailStatuses :
                  ReportQuery(p, n, lines, fail_at, fail_status)
    \/ \E p \in ReportProcs : ReportPage(p)

SpecReport == InitReport /\ [][NextReport]_vars

(* A table this service did not fill by itself: a row of realm r1 in which  *)
(* any of access_token, refresh_token and expires_at may be NULL.           *)
StoredTables ==
    { { [realm_id |-> "r1", access_token |-> at, refresh_token |-> rt,
         expires_at |-> e, refresh_expires_at |-> None, updated_at |-> 0] } :
        at \in {None, 1}, rt \in {None, 2}, e \in {None, DefaultSkew, DefaultExpiresIn} }

InitRows ==
    /\ qbo_tokens \in StoredTables
    /\ now = 0
    /\ ticks = 0
    /\ issued = 2
    /\ last_rt = [r \in Realms |-> IF r = "r1" THEN SelectRow(qbo_tokens, r).refresh_token
                                   ELSE None]
    /\ pc = [p \in Procs |-> "idle"]
    /\ req = [p \in Procs |-> IdleReq]
    /\ res = [p \in Procs |-> NoResult]
    /\ connect_states = ConnectStates
    /\ qbo_oauth_state \in ConnectStates
    /\ query = IdleQuery

SpecRows == InitRows /\ [][Next]_vars

----------------------------------------------------------------------------
(* Properties *)

(* Request p went to an endpoint that calls get_valid_access_token and has  *)
(* finished: res[p] holds how that call went.                              *)
GV(p) == pc[p] = "done" /\ res[p].op \in Endpoints \cup ReportEndpoints

(* The record the call selected holds an access token and an expires_at     *)
(* more than skew seconds after the time the call read from the clock.     *)
FoundFresh(r) ==
    /\ r.row # NoRow
    /\ Truthy(r.row.access_token)
    /\ r.row.expires_at # None
    /\ r.row.expires_at > r.read_now + r.skew

(* The call read the clock (the record it selected passed line 165) and the *)
(* record's expires_at is at or before now + skew, now being that reading   *)
FoundWithinSkew(r) ==
    /\ r.row # NoRow
    /\ Truthy(r.row.access_token)
    /\ r.row.expires_at # None
    /\ r.row.expires_at <= r.read_now + r.skew

FailedWith(r, exc) == r.outcome = "raise" /\ r.exc = exc

(* The provider's answer was a 2xx carrying an access token *)
CallSucceeded(d) == d.status >= 200 /\ d.status <= 299 /\ Truthy(d.access_token)

(* C1: a call that finds an access token whose expires_at is strictly more  *)
(* than skew seconds ahead of the clock it reads returns exactly that       *)
(* token, sends nothing to the provider and writes nothing to the table.    *)
C1_FreshTokenReturnedUnchanged ==
    \A p \in Procs :
        (GV(p) /\ FoundFresh(res[p])) =>
            /\ res[p].outcome = "return"
            /\ res[p].value = res[p].row.access_token
            /\ res[p].calls = 0
            /\ res[p].writes = 0
            /\ res[p].stored = NoRow

C1_Witness ==
    \E p \in Procs :
        /\ GV(p) /\ FoundFresh(res[p])
        /\ res[p].outcome = "return"
        /\ res[p].value = res[p].row.access_token
        /\ res[p].calls = 0

(* C2 as stated: a call that finds expires_at at or before now + skew       *)
(* (equal to it, or already past) sends exactly one refresh request, and    *)
(* when the answer is a success returns the access token of that answer,    *)
(* which is then the stored access token.                                   *)
C2_AlwaysOneRefreshWithinSkew ==
    \A p \in Procs :
        (GV(p) /\ FoundWithinSkew(res[p])) =>
            /\ res[p].calls = 1
            /\ CallSucceeded(res[p].data) =>
                 /\ res[p].outcome = "return"
                 /\ res[p].value = res[p].data.access_token
                 /\ res[p].stored.access_token = res[p].value

(* C2 amended: a call that finds an access token with expires_at at or      *)
(* before now + skew starts a refresh, which reads the stored refresh       *)
(* token.  When it reads one, exactly one refresh request is sent, and when *)
(* the answer is a success the call returns the access token of that        *)
(* answer, which is the access token its own update commits.  When it reads *)
(* none, no request is sent and the call fails with ReconnectRequired.      *)
C2_OneRefreshWithinSkew ==
    \A p \in Procs :
        (GV(p) /\ FoundWithinSkew(res[p])) =>
            /\ res[p].refresh_read
            /\ IF Truthy(res[p].refresh_token)
               THEN /\ res[p].calls = 1
                    /\ CallSucceeded(res[p].data) =>
                         /\ res[p].outcome = "return"
                         /\ res[p].value = res[p].data.access_token
                         /\ res[p].writes = 1
                         /\ res[p].stored.access_token = res[p].value
               ELSE /\ res[p].calls = 0
                    /\ res[p].writes = 0
                    /\ FailedWith(res[p], "RECONNECT_REQUIRED")

(* expires_at exactly at now + skew: refreshed, and the new token returned *)
C2_Witness ==
    \E p \in Procs :
        /\ GV(p)
        /\ res[p].row.expires_at = res[p].read_now + res[p].skew
        /\ res[p].calls = 1
        /\ res[p].outcome = "return"
        /\ res[p].value = res[p].data.access_token
        /\ res[p].value # res[p].row.access_token
        /\ res[p].stored.access_token = res[p].value

(* The lifetime an answer gives its access token: expires_in, 3600 when omitted *)
Lifetime(d) == IF d.expires_in = None THEN DefaultExpiresIn ELSE d.expires_in

(* C3 as stated: every returned access token has a recorded expires_at      *)
(* later than now + skew at the moment of return, whether it came from the  *)
(* table or from a refresh, whatever expires_in the provider answered.      *)
C3_ReturnedTokenOutlivesSkew ==
    \A p \in Procs :
        (GV(p) /\ res[p].outcome = "return") =>
            res[p].expires_at > res[p].at + res[p].skew

(* C3 amended: a token returned from the table has expires_at later than    *)
(* now + skew at the moment of return; a refreshed token is recorded and    *)
(* returned with expires_at = expires_in (3600 when omitted) seconds after  *)
(* the time the answer was processed, which is later than that time + skew  *)
(* exactly when the lifetime exceeds skew, and at the later moment of       *)
(* return is later than now + skew only when the lifetime exceeds skew.     *)
C3_ReturnedTokenExpiry ==
    \A p \in Procs :
        (GV(p) /\ res[p].outcome = "return") =>
            IF res[p].calls = 0
            THEN /\ res[p].expires_at = res[p].row.expires_at
                 /\ res[p].expires_at > res[p].at + res[p].skew
            ELSE /\ res[p].expires_at = res[p].computed_at + Lifetime(res[p].data)
                 /\ res[p].stored.expires_at = res[p].expires_at
                 /\ res[p].computed_at <= res[p].at
                 /\ (res[p].expires_at > res[p].computed_at + res[p].skew
                       <=> Lifetime(res[p].data) > res[p].skew)
                 /\ res[p].expires_at > res[p].at + res[p].skew
                       => Lifetime(res[p].data) > res[p].skew

(* a refreshed token returned although it expires within skew seconds *)
C3_Witness ==
    \E p \in Procs :
        /\ GV(p) /\ res[p].outcome = "return" /\ res[p].calls = 1
        /\ res[p].data.expires_in = res[p].skew
        /\ res[p].expires_at = res[p].computed_at + res[p].skew
        /\ res[p].expires_at <= res[p].at + res[p].skew
        /\ res[p].stored.expires_at = res[p].expires_at

(* Request p has read the realm's refresh token and not yet committed its    *)
(* update                                                                   *)
RefreshInFlight(p) ==
    pc[p] \in {"refresh_call", "refresh_answered", "refresh_expiry",
               "refresh_store", "refresh_commit"}

(* Request q reads the refresh token p has read and goes on to send it *)
ReadsSameRefreshToken(q, p) ==
    /\ RefreshRead(q)
    /\ pc'[q] = "refresh_call"
    /\ req'[q].refresh_token = req[p].refresh_token

(* C4: refreshes of one realm are not mutually excluded.  While one request *)
(* has read the realm's refresh token and not yet committed its update, and *)
(* the row still holds the token it read, a second request for the realm    *)
(* that is about to read the refresh token is free to read that same token  *)
(* and go on to send it.  When two such requests, the only writers, have    *)
(* both returned, each has committed its own update, and the row holds the  *)
(* refresh token of one of the two updates, whichever committed last: not   *)
(* necessarily the one the provider issued last.                            *)
C4_NoMutualExclusion ==
    \A p \in Procs : \A q \in Procs \ {p} :
        /\ ( /\ RefreshInFlight(p)
             /\ pc[q] = "refresh_read"
             /\ req[q].realm = req[p].realm
             /\ SelectRow(qbo_tokens, req[p].realm).refresh_token = req[p].refresh_token ) =>
                ENABLED ReadsSameRefreshToken(q, p)
        /\ ( /\ GV(p) /\ GV(q) /\ res[p].realm = res[q].realm
             /\ res[p].outcome = "return" /\ res[q].outcome = "return"
             /\ res[p].calls = 1 /\ res[q].calls = 1 ) =>
                /\ res[p].writes = 1 /\ res[q].writes = 1
                /\ SelectRow(qbo_tokens, res[p].realm).refresh_token \in
                      {res[p].stored.refresh_token, res[q].stored.refresh_token}

(* Both requests sent the same stored refresh token (a duplicate refresh),  *)
(* each got a rotated one, and the row ends with the one issued first: the  *)
(* refresh token the provider issued last was overwritten.                  *)
C4_Witness ==
    \E p \in Procs : \E q \in Procs \ {p} :
        /\ GV(p) /\ GV(q) /\ res[p].realm = res[q].realm
        /\ res[p].outcome = "return" /\ res[q].outcome = "return"
        /\ res[p].calls = 1 /\ res[q].calls = 1
        /\ res[p].refresh_token = res[q].refresh_token
        /\ Truthy(res[p].data.refresh_token) /\ Truthy(res[q].data.refresh_token)
        /\ last_rt[res[p].realm] = res[q].data.refresh_token
        /\ SelectRow(qbo_tokens, res[p].realm).refresh_token = res[p].data.refresh_token
        /\ res[p].data.refresh_token # res[q].data.refresh_token

(* C5: after a successful refresh the stored access token is the answer's;  *)
(* the stored refresh token is the answer's when it carries one, and the    *)
(* one the refresh read from the table when it carries none.                *)
C5_RefreshTokenKeptOrRotated ==
    \A p \in Procs :
        (GV(p) /\ res[p].outcome = "return" /\ res[p].calls = 1) =>
            /\ res[p].stored.access_token = res[p].data.access_token
            /\ Truthy(res[p].refresh_token)
            /\ res[p].stored.refresh_token =
                 IF Truthy(res[p].data.refresh_token)
                 THEN res[p].data.refresh_token
                 ELSE res[p].refresh_token

(* an answer without a refresh token: the stored one is still in the row *)
C5_Witness ==
    \E p \in Procs :
        /\ GV(p) /\ res[p].outcome = "return" /\ res[p].calls = 1
        /\ ~Truthy(res[p].data.refresh_token)
        /\ res[p].stored.refresh_token = res[p].refresh_token
        /\ Truthy(res[p].stored.refresh_token)
        /\ res[p].stored.access_token # res[p].row.access_token

(* C6: no answer the service gives to an API caller contains an access      *)
(* token or a refresh token value, on any path.                             *)
C6_NoTokenInAnyResponse ==
    \A p \in Procs : pc[p] = "done" => res[p].response.exposed = {}

(* The error strings that report an invalid grant: the text invalid_grant   *)
(* in small letters, with capitals, and followed by an explanation          *)
InvalidGrantErrors == {InvalidGrant, InvalidGrantCapitals, InvalidGrantRevoked}

(* The provider answered with an error status and an invalid-grant error *)
InvalidGrantAnswer(d) == d.status >= 400 /\ d.error \in InvalidGrantErrors

(* The call sent one refresh request and the provider answered it *)
RefreshGotAnswer(r) == r.calls = 1 /\ r.data # NoData

(* C7 as stated: an invalid-grant answer fails with ReconnectRequired;      *)
(* every other non-2xx answer and every other answer without an access      *)
(* token fails with TokenRefreshFailed.                                     *)
C7_RefreshFailureKinds ==
    \A p \in Procs :
        (GV(p) /\ RefreshGotAnswer(res[p])) =>
            LET d == res[p].data
            IN  /\ InvalidGrantAnswer(d) => FailedWith(res[p], "RECONNECT_REQUIRED")
                /\ ( /\ ~InvalidGrantAnswer(d)
                     /\ (d.status < 200 \/ d.status > 299 \/ ~Truthy(d.access_token)) )
                     => FailedWith(res[p], "token_refresh_failed")

(* The record the call found exists but lacks an access token or an expires_at *)
FoundIncomplete(r) ==
    r.row # NoRow /\ (~Truthy(r.row.access_token) \/ r.row.expires_at = None)

(* C8 as stated: a call that finds a record lacking an access token or an   *)
(* expires_at (and holding a refresh token) sends a refresh request instead *)
(* of failing with ReconnectRequired.                                       *)
C8_IncompleteRecordRefreshed ==
    \A p \in Procs :
        (GV(p) /\ FoundIncomplete(res[p]) /\ Truthy(res[p].row.refresh_token)) =>
            /\ res[p].calls = 1
            /\ ~FailedWith(res[p], "RECONNECT_REQUIRED")

(* C8 amended: a call that finds a record lacking an access token or an     *)
(* expires_at fails with ReconnectRequired, sends nothing to the provider   *)
(* and leaves the record as it is, whether or not a refresh token is stored.*)
C8_IncompleteRecordReconnect ==
    \A p \in Procs :
        (GV(p) /\ FoundIncomplete(res[p])) =>
            /\ FailedWith(res[p], "RECONNECT_REQUIRED")
            /\ ~res[p].refresh_read
            /\ res[p].calls = 0
            /\ res[p].writes = 0
            /\ res[p].stored = NoRow

(* a record with a refresh token but no access token: ReconnectRequired *)
C8_Witness ==
    \E p \in Procs :
        /\ GV(p) /\ FoundIncomplete(res[p])
        /\ ~Truthy(res[p].row.access_token) /\ Truthy(res[p].row.refresh_token)
        /\ FailedWith(res[p], "RECONNECT_REQUIRED")
        /\ res[p].calls = 0

(* C9 as stated: whenever the realm has no record, or its record holds no   *)
(* refresh token, the call fails with ReconnectRequired, makes no provider  *)
(* call and creates no record, whatever the stored access token.            *)
C9_NoRefreshTokenAlwaysReconnect ==
    \A p \in Procs :
        (GV(p) /\ (res[p].row = NoRow \/ ~Truthy(res[p].row.refresh_token))) =>
            /\ FailedWith(res[p], "RECONNECT_REQUIRED")
            /\ res[p].calls = 0
            /\ res[p].writes = 0

(* C9 amended: the call fails with ReconnectRequired, with no provider call *)
(* and no record created, when the realm has no record, and when the        *)
(* refresh it starts reads no refresh token; a record without a refresh     *)
(* token whose access token is within skew of expiry ends that way unless a *)
(* handshake stores a refresh token before the refresh reads it.  A record  *)
(* without a refresh token whose access token is more than skew seconds     *)
(* from expiry yields the stored access token, with no provider call.       *)
C9_ReconnectWithoutRefreshToken ==
    \A p \in Procs :
        GV(p) =>
            /\ res[p].row = NoRow =>
                 /\ FailedWith(res[p], "RECONNECT_REQUIRED")
                 /\ res[p].calls = 0 /\ res[p].writes = 0
                 /\ res[p].stored = NoRow
            /\ (res[p].refresh_read /\ ~Truthy(res[p].refresh_token)) =>
                 /\ FailedWith(res[p], "RECONNECT_REQUIRED")
                 /\ res[p].calls = 0 /\ res[p].writes = 0
            /\ ( /\ res[p].row # NoRow /\ ~Truthy(res[p].row.refresh_token)
                 /\ ~FoundFresh(res[p]) ) =>
                 \/ /\ FailedWith(res[p], "RECONNECT_REQUIRED")
                    /\ res[p].calls = 0 /\ res[p].writes = 0
                 \/ res[p].refresh_read /\ Truthy(res[p].refresh_token)
            /\ ( /\ res[p].row # NoRow /\ ~Truthy(res[p].row.refresh_token)
                 /\ FoundFresh(res[p]) ) =>
                 /\ res[p].outcome = "return"
                 /\ res[p].value = res[p].row.access_token
                 /\ res[p].calls = 0

(* a record whose token is within skew and that holds no refresh token: the *)
(* refresh read it and the call ended in ReconnectRequired without a call   *)
C9_Witness ==
    \E p \in Procs :
        /\ GV(p) /\ res[p].row # NoRow /\ Truthy(res[p].row.access_token)
        /\ ~Truthy(res[p].row.refresh_token)
        /\ FoundWithinSkew(res[p])
        /\ res[p].refresh_read
        /\ FailedWith(res[p], "RECONNECT_REQUIRED")
        /\ res[p].calls = 0 /\ res[p].writes = 0

(* C10: a get_valid_access_token call that ends in ReconnectRequired or     *)
(* TokenRefreshFailed made at most one provider call, raised that error to  *)
(* its caller instead of a token, committed nothing, and the step that      *)
(* raises leaves the table as it was.                                       *)
C10_FailedRefreshNotRetried ==
    [][ \A p \in Procs :
          ( /\ pc[p] # "done" /\ pc'[p] = "done"
            /\ res'[p].op \in Endpoints \cup ReportEndpoints
            /\ res'[p].outcome = "raise"
            /\ res'[p].exc \in {"RECONNECT_REQUIRED", "token_refresh_failed"} ) =>
              /\ qbo_tokens' = qbo_tokens
              /\ res'[p].calls <= 1
              /\ res'[p].writes = 0
              /\ res'[p].value = None
              /\ res'[p].response.error \in {"reconnect_required", "auth_failed"} ]_vars

(* a refresh answered without an access token: one call, TokenRefreshFailed, *)
(* the row as before                                                         *)
C10_Witness ==
    \E p \in Procs :
        /\ GV(p) /\ FailedWith(res[p], "token_refresh_failed")
        /\ res[p].calls = 1 /\ res[p].writes = 0
        /\ res[p].data.status = 200
        /\ res[p].stored = NoRow

----------------------------------------------------------------------------
(* The OAuth handshake *)

(* Request p was GET /oauth/callback and has finished *)
CB(p) == pc[p] = "done" /\ res[p].op = "callback"

(* The callback was turned away before any token exchange and wrote nothing *)
RejectedWith(r, error) ==
    /\ r.response.status = 400 /\ r.response.error = error
    /\ r.calls = 0 /\ r.writes = 0

(* The callback's cookie holds a state /connect had handed out, and its     *)
(* state parameter is another value or absent.                              *)
StateDiffersFromIssuedCookie(r) ==
    r.cookie_state \in r.connected /\ r.state # r.cookie_state

(* C11 as stated: a callback whose state differs from the state cookie that *)
(* /connect issued is rejected with invalid_state and sends no token        *)
(* exchange, whatever its code and realmId are, absent ones included.       *)
C11_MismatchAlwaysInvalidState ==
    \A p \in Procs :
        (CB(p) /\ StateDiffersFromIssuedCookie(res[p])) =>
            RejectedWith(res[p], "invalid_state")

(* C11 amended: a callback whose state differs from the state cookie that   *)
(* /connect issued is always rejected with status 400 before any token      *)
(* exchange and writes nothing; the rejection is invalid_state when code,   *)
(* realmId and state are all present, and missing_params when one of them   *)
(* is absent, because the parameter check comes first.                      *)
C11_MismatchRejectedBeforeExchange ==
    \A p \in Procs :
        (CB(p) /\ StateDiffersFromIssuedCookie(res[p])) =>
            IF Truthy(res[p].code) /\ res[p].realm # "" /\ Truthy(res[p].state)
            THEN RejectedWith(res[p], "invalid_state")
            ELSE RejectedWith(res[p], "missing_params")

(* a mismatching state with the code absent: missing_params, no exchange *)
C11_Witness ==
    \E p \in Procs :
        /\ CB(p) /\ StateDiffersFromIssuedCookie(res[p])
        /\ ~Truthy(res[p].code) /\ res[p].realm # "" /\ Truthy(res[p].state)
        /\ RejectedWith(res[p], "missing_params")

(* The callback sent its code to the provider's token endpoint *)
ReachedExchange(r) == r.calls >= 1

(* C12 as stated: a callback reaches the token exchange only if its state   *)
(* is one a preceding /connect handed out; one whose state or cookie is     *)
(* absent, or whose equal state and cookie /connect never issued, is        *)
(* rejected.                                                                *)
C12_ExchangeOnlyForIssuedState ==
    \A p \in Procs :
        CB(p) =>
            /\ ReachedExchange(res[p]) => res[p].state \in res[p].connected
            /\ ( \/ ~Truthy(res[p].state) \/ ~Truthy(res[p].cookie_state)
                 \/ res[p].state \notin res[p].connected )
                 => (~ReachedExchange(res[p]) /\ res[p].response.status = 400)

(* C12 amended: a callback reaches the token exchange only if code, realmId *)
(* and state are present and state equals the qbo_oauth_state cookie the    *)
(* request carries; one whose state or cookie is absent is rejected with    *)
(* status 400.  The service keeps no record of what /connect issued: an     *)
(* equal state and cookie pass whether or not /connect ever issued them.    *)
C12_ExchangeOnlyForStateEqualCookie ==
    \A p \in Procs :
        CB(p) =>
            /\ ReachedExchange(res[p]) <=>
                 /\ Truthy(res[p].code) /\ res[p].realm # ""
                 /\ Truthy(res[p].state)
                 /\ res[p].cookie_state = res[p].state
            /\ (~Truthy(res[p].state) \/ ~Truthy(res[p].cookie_state))
                 => (~ReachedExchange(res[p]) /\ res[p].response.status = 400)

(* a state and cookie that no /connect issued: exchanged, and the realm     *)
(* connected                                                                *)
C12_Witness ==
    \E p \in Procs :
        /\ CB(p) /\ res[p].state = res[p].cookie_state
        /\ res[p].state \notin res[p].connected
        /\ ReachedExchange(res[p])
        /\ res[p].response.status = 200 /\ res[p].writes = 1
        /\ res[p].stored # NoRow

(* Request p takes the step that ends a callback *)
CallbackEnds(p) == pc[p] # "done" /\ pc'[p] = "done" /\ res'[p].op = "callback"

(* The error a callback with these inputs and this provider answer (a JSON  *)
(* body) is to end in: "" is the connected outcome.                         *)
CallbackFailure(r) ==
    IF ~Truthy(r.code) \/ r.realm = "" \/ ~Truthy(r.state) THEN "missing_params"
    ELSE IF ~Truthy(r.cookie_state) \/ r.cookie_state # r.state THEN "invalid_state"
    ELSE IF r.data.status >= 400 THEN "token_exchange_failed"
    ELSE IF ~Truthy(r.data.access_token) \/ ~Truthy(r.data.refresh_token)
         THEN "missing_tokens_in_response"
    ELSE ""

(* The callback answered connected *)
Connected(r) == r.response.status = 200 /\ r.response.error = ""

(* Request p takes a step of a callback *)
CallbackSteps(p) ==
    /\ pc'[p] # pc[p]
    /\ (req[p].op = "callback" \/ req'[p].op = "callback" \/ res'[p].op = "callback")

(* C13: a callback that ends in missing_params, invalid_state,              *)
(* token_exchange_failed or missing_tokens_in_response answers with that    *)
(* error code, each one for its own cause and different from the other      *)
(* three, and has written nothing: no step of it changed the table and it   *)
(* committed no row.  The only step of a callback that changes the table is *)
(* the commit of its upsert, taken by a callback that passed all four       *)
(* checks, and the only step after that commit is the connected answer.     *)
C13_FailedCallbackWritesNothing ==
    [][ \A p \in Procs :
          /\ CallbackEnds(p) =>
                /\ ~Connected(res'[p]) =>
                      /\ qbo_tokens' = qbo_tokens
                      /\ res'[p].writes = 0
                      /\ res'[p].stored = NoRow
                /\ ((res'[p].calls = 0 \/ res'[p].data # NoData) /\ res'[p].data.json) =>
                      /\ res'[p].response.error = CallbackFailure(res'[p])
                      /\ res'[p].response.error # "" =>
                            res'[p].response.status \in {400, 500}
                /\ Connected(res'[p]) =>
                      /\ CallbackFailure(res'[p]) = ""
                      /\ res'[p].writes = 1
                      /\ pc[p] = "callback_answer"
          /\ (CallbackSteps(p) /\ qbo_tokens' # qbo_tokens) =>
                /\ pc[p] = "callback_commit" /\ pc'[p] = "callback_answer"
                /\ req[p].data.json /\ CallbackFailure(req[p]) = ""
                /\ req[p].writes = 0 /\ req'[p].writes = 1
          /\ (CallbackSteps(p) /\ pc[p] = "callback_answer") =>
                (CallbackEnds(p) /\ Connected(res'[p])) ]_vars

(* an answer without a refresh token, for a realm that has a row: the       *)
(* callback answers missing_tokens_in_response and the row is as before     *)
C13_Witness ==
    \E p \in Procs :
        /\ CB(p) /\ res[p].response.error = "missing_tokens_in_response"
        /\ Truthy(res[p].data.access_token) /\ ~Truthy(res[p].data.refresh_token)
        /\ res[p].row # NoRow
        /\ res[p].stored = NoRow
        /\ res[p].writes = 0

----------------------------------------------------------------------------
(* The token table *)

RowsOf(tbl, r) == { row \in tbl : row.realm_id = r }

HasRow(tbl, r) == RowsOf(tbl, r) # {}

(* C14: the table never holds two rows of one realm, and a callback that    *)
(* answers connected has committed as the realm's only row the answer's     *)
(* access token and refresh token, expires_at and refresh_expires_at each   *)
(* computed from the answer and its own clock read (the second read not     *)
(* before the first, the answer not before either), also when the realm had *)
(* a row before.                                                            *)
C14_OneRecordPerRealm ==
    /\ \A r \in RealmIds : Cardinality(RowsOf(qbo_tokens, r)) <= 1
    /\ \A p \in Procs :
          (CB(p) /\ Connected(res[p])) =>
              LET d == res[p].data
              IN  /\ res[p].writes = 1
                  /\ res[p].stored # NoRow
                  /\ res[p].stored.realm_id = res[p].realm
                  /\ res[p].stored.access_token = d.access_token
                  /\ res[p].stored.refresh_token = d.refresh_token
                  /\ res[p].stored.expires_at = res[p].computed_at + Lifetime(d)
                  /\ res[p].stored.refresh_expires_at =
                        IF d.x_refresh_token_expires_in \in {None, 0}
                        THEN None
                        ELSE res[p].refresh_computed_at + d.x_refresh_token_expires_in
                  /\ res[p].computed_at <= res[p].at
                  /\ res[p].stored.refresh_expires_at # None =>
                        /\ res[p].computed_at <= res[p].refresh_computed_at
                        /\ res[p].refresh_computed_at <= res[p].at

(* a connected callback for a realm that had a row, the clock having moved  *)
(* between its two reads: one row, new tokens                               *)
C14_Witness ==
    \E p \in Procs :
        /\ CB(p) /\ Connected(res[p])
        /\ res[p].row # NoRow
        /\ res[p].stored.access_token # res[p].row.access_token
        /\ res[p].stored.refresh_token # res[p].row.refresh_token
        /\ res[p].stored.refresh_expires_at # None
        /\ res[p].refresh_computed_at > res[p].computed_at
        /\ qbo_tokens = {res[p].stored}

(* C15: a realm's row comes into existence only in the step that commits    *)
(* the upsert of a callback for that realm, a callback that passed its      *)
(* checks and whose one remaining step is the connected answer; no step of  *)
(* get_valid_access_token or refresh_access_token creates one; a realm that *)
(* has a row keeps having one.                                              *)
C15_RecordOnlyFromCallback ==
    [][ \A r \in RealmIds :
          /\ HasRow(qbo_tokens, r) => HasRow(qbo_tokens', r)
          /\ (~HasRow(qbo_tokens, r) /\ HasRow(qbo_tokens', r)) =>
                \E p \in Procs :
                    /\ CallbackSteps(p)
                    /\ pc[p] = "callback_commit" /\ pc'[p] = "callback_answer"
                    /\ req[p].realm = r
                    /\ req[p].data.json /\ CallbackFailure(req[p]) = ""
          /\ \A p \in Procs :
                /\ (CallbackSteps(p) /\ pc[p] = "callback_answer") =>
                      (CallbackEnds(p) /\ Connected(res'[p]))
                /\ (pc'[p] # pc[p] /\ (req[p].op \in Endpoints \/ req'[p].op \in Endpoints
                                       \/ res'[p].op \in Endpoints)) =>
                      HasRow(qbo_tokens', r) = HasRow(qbo_tokens, r) ]_vars

(* a row a callback created, refreshed afterwards by an endpoint's call and *)
(* still there                                                              *)
C15_Witness ==
    \E p, q \in Procs :
        /\ CB(p) /\ Connected(res[p]) /\ res[p].row = NoRow
        /\ GV(q) /\ res[q].realm = res[p].realm
        /\ res[q].outcome = "return" /\ res[q].writes = 1
        /\ HasRow(qbo_tokens, res[p].realm)

----------------------------------------------------------------------------
(* The paged query *)

(* The page requests so far asked for start positions 1, 1 + page_size, ... *)
(* in that order; never more than the full pages plus one; while paging     *)
(* goes on every page so far was full; and a finished query made exactly    *)
(* one request per full page plus one, and returned rows 1..n in order.     *)
PagingInOrder ==
    query.pc # "idle" =>
        LET ps == query.page_size
            n == query.rows
            calls == Len(query.starts)
        IN  /\ query.starts = [k \in 1..calls |-> 1 + (k - 1) * ps]
            /\ calls <= (n \div ps) + 1
            /\ query.pc = "paging" => query.results = [i \in 1..(calls * ps) |-> i]
            /\ query.outcome = "return" =>
                  /\ calls = (n \div ps) + 1
                  /\ query.results = [i \in 1..n |-> i]

(* C16: against a provider that serves n rows in full pages, qbo_query_all  *)
(* asks for start positions 1, 1 + page_size, ... in order, stops at the    *)
(* first page shorter than page_size, returns the rows of all pages in      *)
(* request order, and always comes to an end.                               *)
C16_PagingInOrderAndTerminates ==
    /\ []PagingInOrder
    /\ (query.pc = "paging") ~> (query.pc = "done")

(* pages of 1000, 1000 and 400 rows: three requests, at 1, 1001 and 2001,   *)
(* and 2400 rows returned                                                   *)
C16_Witness ==
    /\ query.pc = "done" /\ query.outcome = "return"
    /\ query.page_size = DefaultPageSize /\ query.rows = 2400
    /\ query.starts = <<1, 1001, 2001>>
    /\ Len(query.results) = 2400
    /\ query.results[1001] = 1001

(* C17 as stated: when the provider answers a page request with 401 the     *)
(* report endpoint answers with an error code for the 401, for any other    *)
(* status of 400 or above with a different error code; paging stops at that *)
(* request and no rows are sent.                                            *)
C17_PageFailureStructured ==
    \A p \in Procs :
        (GV(p) /\ res[p].op \in ReportEndpoints /\ query.outcome = "raise") =>
            /\ res[p].response.error =
                  (IF query.fail_status = 401 THEN "AUTH_401" ELSE "QBO_QUERY_FAILED")
            /\ res[p].body = <<>>
            /\ res[p].data_calls = query.fail_at
            /\ res[p].calls <= 1

----------------------------------------------------------------------------
(* Token failures at the endpoints *)

(* C18 as stated: in each of the three endpoints a get_valid_access_token   *)
(* call that fails with ReconnectRequired is answered 401                   *)
(* reconnect_required with connect_url /connect, a call that fails in any   *)
(* other way is answered auth_failed, and no data request is made in either *)
(* case.                                                                    *)
C18_TokenFailureResponses ==
    \A p \in Procs :
        (GV(p) /\ res[p].outcome = "raise") =>
            /\ res[p].data_calls = 0
            /\ IF res[p].exc = "RECONNECT_REQUIRED"
               THEN /\ res[p].response.status = 401
                    /\ res[p].response.error = "reconnect_required"
                    /\ res[p].response.connect_url = "/connect"
               ELSE /\ res[p].response.status = 500
                    /\ res[p].response.error = "auth_failed"
                    /\ res[p].response.connect_url = ""

(* The refresh request was sent and no answer arrived *)
NetworkFailed(r) == r.calls = 1 /\ r.data = NoData

(* C19 as stated: a refresh whose request to the token endpoint fails on    *)
(* the network ends for the caller of get_valid_access_token like a refresh *)
(* the provider refused: TokenRefreshFailed, answered auth_failed.          *)
C19_NetworkFailureIsRefreshFailure ==
    \A p \in Procs :
        (GV(p) /\ NetworkFailed(res[p])) =>
            /\ FailedWith(res[p], "token_refresh_failed")
            /\ res[p].response.error = "auth_failed"

(* C20: every row of the table holds an access token, a refresh token and   *)
(* an expires_at, in every state that callbacks and refreshes lead to, in   *)
(* any interleaving; refresh_expires_at alone may be NULL.                  *)
C20_StoredRecordsComplete ==
    \A row \in qbo_tokens :
        /\ Truthy(row.access_token)
        /\ Truthy(row.refresh_token)
        /\ row.expires_at # None

(* a row written by a refresh whose answer carried no refresh token and no  *)
(* refresh lifetime: both tokens and expires_at are there,                  *)
(* refresh_expires_at is NULL                                               *)
C20_Witness ==
    \E p \in Procs :
        /\ GV(p) /\ res[p].writes = 1
        /\ ~Truthy(res[p].data.refresh_token)
        /\ res[p].stored \in qbo_tokens
        /\ res[p].stored.refresh_expires_at = None
        /\ Truthy(res[p].stored.access_token)
        /\ Truthy(res[p].stored.refresh_token)
        /\ res[p].stored.expires_at # None

----------------------------------------------------------------------------
(* Re-authorization next to a refresh *)

(* Callback p re-authorized a realm that had a row, and request q refreshed *)
(* the same realm with a refresh token other than the callback's: q read    *)
(* it before the callback stored its own.                                   *)
StaleRefreshBesideReauth(p, q) ==
    /\ CB(p) /\ Connected(res[p]) /\ res[p].row # NoRow
    /\ GV(q) /\ res[q].realm = res[p].realm
    /\ res[q].refresh_read /\ res[q].writes = 1
    /\ res[q].refresh_token # res[p].data.refresh_token

(* C21 as stated: once both have finished, the realm's stored refresh token *)
(* is the one the callback stored or one the provider sent in the refresh   *)
(* answer, never the earlier one the refresh had read.                      *)
C21_StaleRefreshKeepsNewToken ==
    \A p \in Procs : \A q \in Procs \ {p} :
        StaleRefreshBesideReauth(p, q) =>
            SelectRow(qbo_tokens, res[p].realm).refresh_token \in
                {res[p].data.refresh_token} \cup ({res[q].data.refresh_token} \ {None})

----------------------------------------------------------------------------
(* The refresh token's expiry *)

(* The call refreshed and stored the answer *)
Refreshed(r) == r.outcome = "return" /\ r.calls = 1 /\ r.writes = 1

(* C22 as stated: after a successful refresh the stored refresh_expires_at  *)
(* is the clock read taken for it plus x_refresh_token_expires_in when the  *)
(* answer carries that field and NULL when it does not.                     *)
C22_RefreshExpiryFromField ==
    \A p \in Procs :
        (GV(p) /\ Refreshed(res[p])) =>
            res[p].stored.refresh_expires_at =
                IF res[p].data.x_refresh_token_expires_in # None
                THEN res[p].refresh_computed_at + res[p].data.x_refresh_token_expires_in
                ELSE None

(* C22 amended: after a successful refresh the stored refresh_expires_at is *)
(* the clock read taken for it (line 128, after the one for expires_at)     *)
(* plus x_refresh_token_expires_in when the answer carries that field with  *)
(* a value other than zero, and NULL when the field is absent or zero; it   *)
(* is computed from the answer alone, so the value stored before is never   *)
(* kept, also when the refresh token itself is kept.                        *)
C22_RefreshExpiryFromNonzeroField ==
    \A p \in Procs :
        (GV(p) /\ Refreshed(res[p])) =>
            res[p].stored.refresh_expires_at =
                IF res[p].data.x_refresh_token_expires_in \in {None, 0}
                THEN None
                ELSE res[p].refresh_computed_at + res[p].data.x_refresh_token_expires_in

(* a row with a refresh expiry, refreshed by an answer without refresh      *)
(* token and without the field: the refresh token is kept, the expiry NULL  *)
C22_Witness ==
    \E p \in Procs :
        /\ GV(p) /\ Refreshed(res[p])
        /\ res[p].row.refresh_expires_at # None
        /\ ~Truthy(res[p].data.refresh_token)
        /\ res[p].data.x_refresh_token_expires_in = None
        /\ res[p].stored.refresh_token = res[p].refresh_token
        /\ res[p].stored.refresh_expires_at = None

----------------------------------------------------------------------------
(* Other realms *)

(* The realm the request of p works on, after the step *)
RealmOf(p) == IF pc'[p] = "done" THEN res'[p].realm ELSE req'[p].realm

(* C23: a step of a request for one realm (a callback with its upsert, a    *)
(* get_valid_access_token call with or without refresh, auth/status)        *)
(* leaves the rows of every other realm as they were; auth/status and a     *)
(* get_valid_access_token call that sends no refresh leave the whole table  *)
(* as it was.                                                               *)
C23_OtherRealmsUnchanged ==
    [][ \A p \in Procs :
          pc'[p] # pc[p] =>
              /\ \A o \in RealmIds \ {RealmOf(p)} :
                    RowsOf(qbo_tokens', o) = RowsOf(qbo_tokens, o)
              /\ (pc'[p] = "done" /\ res'[p].op = "auth_status") =>
                    qbo_tokens' = qbo_tokens
              /\ (pc[p] = "idle" /\ req'[p].op \in Endpoints) =>
                    qbo_tokens' = qbo_tokens
              /\ (pc'[p] = "done" /\ res'[p].op \in Endpoints /\ res'[p].calls = 0) =>
                    /\ qbo_tokens' = qbo_tokens
                    /\ res'[p].writes = 0 ]_vars

(* a callback created the row of one realm, a refresh then rewrote the row  *)
(* of another, and the first row is in the table as the callback left it    *)
C23_Witness ==
    \E p \in Procs : \E q \in Procs \ {p} :
        /\ CB(p) /\ Connected(res[p])
        /\ GV(q) /\ Refreshed(res[q])
        /\ res[q].realm # res[p].realm
        /\ res[q].stored # res[q].row
        /\ res[p].stored \in qbo_tokens
        /\ res[q].stored \in qbo_tokens
        /\ Cardinality(qbo_tokens) = 2

----------------------------------------------------------------------------
(* The state value after use *)

(* Request q, a callback with these parameters and this cookie, passes both *)
(* checks and goes on to the token exchange.                                *)
CallbackPasses(q, code, realmId, state, cookie_state) ==
    /\ CallbackCheck(q, code, realmId, state, cookie_state)
    /\ pc'[q] = "callback_call"

(* Callback p came from the browser /connect had given its cookie, passed   *)
(* the state check, and no /connect has run since.                          *)
PassedWithConnectCookie(p) ==
    /\ CB(p) /\ ReachedExchange(res[p])
    /\ res[p].cookie_state \in res[p].connected
    /\ connect_states = res[p].connected

(* C24: a callback that passes the state check uses nothing up.  After it   *)
(* has ended, whatever its outcome, the browser still holds the same state  *)
(* cookie, and a new callback with the same code, realmId, state and cookie *)
(* passes the state check again; the service holds no record that could     *)
(* tell the second from the first.                                          *)
C24_StateNotConsumed ==
    \A p \in Procs :
        PassedWithConnectCookie(p) =>
            /\ qbo_oauth_state = res[p].cookie_state
            /\ \A q \in Procs \ {p} :
                  pc[q] = "idle" =>
                      ENABLED CallbackPasses(q, res[p].code, res[p].realm,
                                             res[p].state, qbo_oauth_state)

(* two callbacks with the state and cookie of one /connect, the second      *)
(* begun after the first had stored its row: both connected, both wrote     *)
C24_Witness ==
    \E p \in Procs : \E q \in Procs \ {p} :
        /\ PassedWithConnectCookie(p) /\ Connected(res[p]) /\ res[p].writes = 1
        /\ CB(q) /\ Connected(res[q]) /\ res[q].writes = 1
        /\ res[q].state = res[p].state
        /\ res[q].cookie_state = res[p].cookie_state
        /\ res[q].realm = res[p].realm
        /\ res[q].row = res[p].stored
        /\ qbo_tokens = {res[q].stored}
        /\ res[q].stored # res[p].stored

====
